---- MODULE Spec2Model ----
(***************************************************************************)
(* Model of the errorsx module (src/src/errorsx/mod.rs): the ErrorsxBuilder *)
(* construction path, the finished Errorsx value, its accessors, its        *)
(* Display rendering and its place in a chain of std::error::Error causes.  *)
(*                                                                          *)
(* One error value is alive at a time: it is created by Errorsx::new or by  *)
(* Errorsx::builder + with_* + build, read through its accessors, and then  *)
(* dropped.  An Option<T> is the empty tuple (None) or a one-element tuple  *)
(* (Some(x)).  A backtrace snapshot is identified by the ordinal of the     *)
(* Backtrace::force_capture call that produced it.                          *)
(***************************************************************************)
EXTENDS Integers, Sequences, FiniteSets, TLC

VARIABLES
    builder,   \* Option<ErrorsxBuilder>: the builder under construction
    err,       \* Option<Errorsx>: the finished value
    opt,       \* the optional classification fields reason, debug, request_id, id
    captures,  \* number of Backtrace::force_capture calls made so far
    obs,       \* the last read: [op |-> accessor, val |-> what it returned]
    hist       \* the arguments the caller passed since new/builder

vars == <<builder, err, opt, captures, obs, hist>>

----------------------------------------------------------------------------
(* Bounds of the model *)

\* longest context trail a builder accumulates
MaxContext == 2

\* number of values finished during a run
MaxCaptures == 2

----------------------------------------------------------------------------
(* Option<T> *)

None == <<>>

Some(x) == <<x>>

IsSome(o) == o # None

Unwrap(o) == o[1]

----------------------------------------------------------------------------
(* ErrorsxBuilder *)

\* new that starts status as the empty string instead of None
ErrorsxBuilder_new_empty_status(message, caller) ==
    [ type        |-> "ErrorsxBuilder",
      message     |-> message,
      context     |-> <<>>,
      location    |-> caller,
      source      |-> None,
      status_code |-> None,
      status      |-> Some("") ]

\* ErrorsxBuilder::new; caller is Location::caller() of the #[track_caller] entry
ErrorsxBuilder_new(message, caller) ==
    [ type        |-> "ErrorsxBuilder",
      message     |-> message,
      context     |-> <<>>,
      location    |-> caller,
      source      |-> None,
      status_code |-> None,
      status      |-> None ]

\* with_context that puts the new entry in front of the trail
ErrorsxBuilder_with_context_prepend(self, context) ==
    [self EXCEPT !.context = <<context>> \o @]

ErrorsxBuilder_with_context(self, context) ==
    [self EXCEPT !.context = Append(@, context)]

\* with_source that keeps a cause already set
ErrorsxBuilder_with_source_keep_first(self, source) ==
    IF IsSome(self.source) THEN self ELSE [self EXCEPT !.source = Some(source)]

ErrorsxBuilder_with_source(self, source) ==
    [self EXCEPT !.source = Some(source)]

\* with_status_code that keeps a code already set
ErrorsxBuilder_with_status_code_keep_first(self, status_code) ==
    IF IsSome(self.status_code) THEN self
    ELSE [self EXCEPT !.status_code = Some(status_code)]

ErrorsxBuilder_with_status_code(self, status_code) ==
    [self EXCEPT !.status_code = Some(status_code)]

ErrorsxBuilder_with_status(self, status) ==
    [self EXCEPT !.status = Some(status)]

\* Backtrace::force_capture(): the snapshot taken after `taken` earlier captures
Backtrace_force_capture(taken) == taken + 1

\* ErrorsxBuilder::build; backtrace is the snapshot force_capture returned
ErrorsxBuilder_build(self, backtrace) ==
    [ type        |-> "Errorsx",
      message     |-> self.message,
      context     |-> self.context,
      location    |-> self.location,
      backtrace   |-> backtrace,
      source      |-> self.source,
      status_code |-> self.status_code,
      status      |-> self.status ]

----------------------------------------------------------------------------
(* Errorsx *)

Errorsx_new(message, caller, backtrace) ==
    ErrorsxBuilder_build(ErrorsxBuilder_new(message, caller), backtrace)

Errorsx_builder(message, caller) == ErrorsxBuilder_new(message, caller)

Errorsx_message(self) == self.message

Errorsx_context(self) == self.context

Errorsx_location(self) == self.location

Errorsx_backtrace(self) == self.backtrace

Errorsx_status_code(self) == self.status_code

Errorsx_status(self) == self.status

\* source() left at the Error trait's default
Errorsx_source_default(self) == None

\* <Errorsx as Error>::source
Errorsx_source(self) ==
    IF IsSome(self.source) THEN Some(Unwrap(self.source)) ELSE None

\* [String]::join(sep)
RECURSIVE Join(_, _)
Join(words, sep) ==
    IF Len(words) = 0 THEN ""
    ELSE IF Len(words) = 1 THEN Head(words)
    ELSE Head(words) \o sep \o Join(Tail(words), sep)

\* {:#?} of a Backtrace: an opaque text that depends on the snapshot alone
Backtrace_fmt(backtrace) == "Backtrace#" \o ToString(backtrace)

\* fmt in the reduced layout: context and backtrace, no location line
Errorsx_fmt_reduced(self) ==
    "Context: " \o Join(self.context, ",")
        \o "\nSource:\n " \o Backtrace_fmt(self.backtrace)

\* <Errorsx as Display>::fmt
Errorsx_fmt(self) ==
    LET context_info  == Join(self.context, ",")
        location_info == "(at: " \o self.location.file \o ", line_no: "
                            \o ToString(self.location.line) \o ")"
    IN  "Location: " \o location_info \o ",\nContext: " \o context_info
            \o "\nSource:\n " \o Backtrace_fmt(self.backtrace)

----------------------------------------------------------------------------
(* dyn Error: the causes a value can wrap, and the walk along source() *)

\* a std error without a cause of its own (std::io::Error and the like)
IoError == [type |-> "IoError"]

\* source() through the dyn Error vtable: Errorsx answers with its source
\* field, a std leaf error with the trait's default, None
Error_source(e) ==
    IF e.type = "Errorsx" THEN Errorsx_source(e) ELSE None

\* root_cause: follow source() until a value reports none
RECURSIVE root_cause(_)
root_cause(error) ==
    LET next == Error_source(error)
    IN  IF IsSome(next) THEN root_cause(Unwrap(next)) ELSE error

----------------------------------------------------------------------------
(* Inputs *)

Messages == {"", "x"}

Contexts == {"a", "b"}

StatusCodes == {404, 500}

Statuses == {"", "ok"}

Texts == {"", "r"}

\* call sites of Errorsx::new / Errorsx::builder
Sites == { [file |-> "src/main.rs", line |-> 10],
           [file |-> "src/lib.rs",  line |-> 20] }

\* call sites of build(), none of them a site of new/builder
BuildSites == { [file |-> "src/main.rs", line |-> 99] }

InnerSite == [file |-> "src/inner.rs", line |-> 7]

\* values finished before the run starts: C has no cause, B wraps C
InnerC == Errorsx_new("C", InnerSite, Backtrace_force_capture(0))

InnerB ==
    ErrorsxBuilder_build(
        ErrorsxBuilder_with_source(Errorsx_builder("B", InnerSite), InnerC),
        Backtrace_force_capture(Backtrace_force_capture(0)))

PriorBuilds == <<InnerC, InnerB>>

\* the errors a caller hands to with_source
Causes == {IoError, InnerB}

----------------------------------------------------------------------------
(* Optional classification fields: reason, debug, request_id, id *)

OptUnset == [reason |-> None, debug |-> None, request_id |-> None, id |-> None]

with_reason(o, text) == [o EXCEPT !.reason = Some(text)]

with_debug(o, text) == [o EXCEPT !.debug = Some(text)]

with_id(o, text) == [o EXCEPT !.id = Some(text)]

Errorsx_reason(o) == o.reason

Errorsx_debug(o) == o.debug

Errorsx_request_id(o) == o.request_id

Errorsx_id(o) == o.id

----------------------------------------------------------------------------
(* History of the caller's arguments *)

\* what the caller has passed so far: the arguments of new/builder, every
\* with_context argument in call order, the last argument of each setter, and
\* the setters that replaced an earlier, different argument
NoCalls(message, caller) ==
    [ message |-> message, site |-> caller, context |-> <<>>,
      source |-> None, status_code |-> None, status |-> None,
      reason |-> None, debug |-> None, id |-> None,
      replaced |-> {} ]

Called(h, field, arg) ==
    [h EXCEPT ![field] = Some(arg),
              !.replaced = IF IsSome(h[field]) /\ h[field] # Some(arg)
                           THEN @ \cup {field} ELSE @]

NoRead == [op |-> "none", val |-> None, again |-> FALSE]

----------------------------------------------------------------------------
(* The state machine *)

Init ==
    /\ builder = None
    /\ err = None
    /\ opt = OptUnset
    /\ captures = Len(PriorBuilds)
    /\ obs = NoRead
    /\ hist = None

\* let b = Errorsx::builder(message) / ErrorsxBuilder::new(message) at `caller`
Builder(message, caller) ==
    /\ builder = None
    /\ err = None
    /\ builder' = Some(Errorsx_builder(message, caller))
    /\ opt' = OptUnset
    /\ hist' = Some(NoCalls(message, caller))
    /\ UNCHANGED <<err, captures, obs>>

\* let e = Errorsx::new(message) at `caller`
New(message, caller) ==
    /\ builder = None
    /\ err = None
    /\ captures < Len(PriorBuilds) + MaxCaptures
    /\ err' = Some(Errorsx_new(message, caller, Backtrace_force_capture(captures)))
    /\ captures' = captures + 1
    /\ opt' = OptUnset
    /\ hist' = Some(NoCalls(message, caller))
    /\ UNCHANGED <<builder, obs>>

WithContext(context) ==
    /\ IsSome(builder)
    /\ Len(Unwrap(builder).context) < MaxContext
    /\ builder' = Some(ErrorsxBuilder_with_context(Unwrap(builder), context))
    /\ hist' = Some([Unwrap(hist) EXCEPT !.context = Append(@, context)])
    /\ UNCHANGED <<err, opt, captures, obs>>

WithSource(source) ==
    /\ IsSome(builder)
    /\ builder' = Some(ErrorsxBuilder_with_source(Unwrap(builder), source))
    /\ hist' = Some(Called(Unwrap(hist), "source", source))
    /\ UNCHANGED <<err, opt, captures, obs>>

WithStatusCode(status_code) ==
    /\ IsSome(builder)
    /\ builder' = Some(ErrorsxBuilder_with_status_code(Unwrap(builder), status_code))
    /\ hist' = Some(Called(Unwrap(hist), "status_code", status_code))
    /\ UNCHANGED <<err, opt, captures, obs>>

WithStatus(status) ==
    /\ IsSome(builder)
    /\ builder' = Some(ErrorsxBuilder_with_status(Unwrap(builder), status))
    /\ hist' = Some(Called(Unwrap(hist), "status", status))
    /\ UNCHANGED <<err, opt, captures, obs>>

WithReason(text) ==
    /\ IsSome(builder)
    /\ opt' = with_reason(opt, text)
    /\ hist' = Some(Called(Unwrap(hist), "reason", text))
    /\ UNCHANGED <<builder, err, captures, obs>>

WithDebug(text) ==
    /\ IsSome(builder)
    /\ opt' = with_debug(opt, text)
    /\ hist' = Some(Called(Unwrap(hist), "debug", text))
    /\ UNCHANGED <<builder, err, captures, obs>>

WithId(text) ==
    /\ IsSome(builder)
    /\ opt' = with_id(opt, text)
    /\ hist' = Some(Called(Unwrap(hist), "id", text))
    /\ UNCHANGED <<builder, err, captures, obs>>

\* build that records its own call site as the location
BuildTracksCaller(caller) ==
    /\ IsSome(builder)
    /\ captures < Len(PriorBuilds) + MaxCaptures
    /\ err' = Some([ErrorsxBuilder_build(Unwrap(builder), Backtrace_force_capture(captures))
                        EXCEPT !.location = caller])
    /\ captures' = captures + 1
    /\ builder' = None
    /\ UNCHANGED <<opt, obs, hist>>

\* let e = b.build() at `caller`: b is moved into build and is gone afterwards
Build(caller) ==
    /\ IsSome(builder)
    /\ captures < Len(PriorBuilds) + MaxCaptures
    /\ err' = Some(ErrorsxBuilder_build(Unwrap(builder), Backtrace_force_capture(captures)))
    /\ captures' = captures + 1
    /\ builder' = None
    /\ UNCHANGED <<opt, obs, hist>>

\* a read through &self: nothing but the observation changes; `again` tells
\* that the same accessor was also the previous read of this value
Observe(op, val) ==
    /\ obs' = [op |-> op, val |-> val, again |-> (obs.op = op)]
    /\ UNCHANGED <<builder, err, opt, captures, hist>>

Message == IsSome(err) /\ Observe("message", Errorsx_message(Unwrap(err)))

Context == IsSome(err) /\ Observe("context", Errorsx_context(Unwrap(err)))

Location == IsSome(err) /\ Observe("location", Errorsx_location(Unwrap(err)))

Backtrace == IsSome(err) /\ Observe("backtrace", Errorsx_backtrace(Unwrap(err)))

\* source() that moves the cause out of the value
SourceTakes ==
    /\ IsSome(err)
    /\ obs' = [op |-> "source", val |-> Errorsx_source(Unwrap(err)),
               again |-> (obs.op = "source")]
    /\ err' = Some([Unwrap(err) EXCEPT !.source = None])
    /\ UNCHANGED <<builder, opt, captures, hist>>

Source == IsSome(err) /\ Observe("source", Errorsx_source(Unwrap(err)))

StatusCode == IsSome(err) /\ Observe("status_code", Errorsx_status_code(Unwrap(err)))

Status == IsSome(err) /\ Observe("status", Errorsx_status(Unwrap(err)))

\* Display that captures the backtrace anew on every rendering
DisplayRecaptures ==
    /\ IsSome(err)
    /\ captures < Len(PriorBuilds) + MaxCaptures
    /\ obs' = [op |-> "display",
               val |-> Errorsx_fmt([Unwrap(err) EXCEPT
                                      !.backtrace = Backtrace_force_capture(captures)]),
               again |-> (obs.op = "display")]
    /\ captures' = captures + 1
    /\ UNCHANGED <<builder, err, opt, hist>>

Display == IsSome(err) /\ Observe("display", Errorsx_fmt(Unwrap(err)))

Reason == IsSome(err) /\ Observe("reason", Errorsx_reason(opt))

Debug == IsSome(err) /\ Observe("debug", Errorsx_debug(opt))

RequestId == IsSome(err) /\ Observe("request_id", Errorsx_request_id(opt))

Id == IsSome(err) /\ Observe("id", Errorsx_id(opt))

RootCause == IsSome(err) /\ Observe("root_cause", root_cause(Unwrap(err)))

\* the value goes out of scope
Drop ==
    /\ IsSome(err)
    /\ err' = None
    /\ opt' = OptUnset
    /\ obs' = NoRead
    /\ hist' = None
    /\ UNCHANGED <<builder, captures>>

\* the module as it is in the source: Errorsx, ErrorsxBuilder and a walk
\* along the cause chain
Next ==
    \/ \E m \in Messages, s \in Sites : Builder(m, s)
    \/ \E m \in Messages, s \in Sites : New(m, s)
    \/ \E c \in Contexts : WithContext(c)
    \/ \E e \in Causes : WithSource(e)
    \/ \E n \in StatusCodes : WithStatusCode(n)
    \/ \E t \in Statuses : WithStatus(t)
    \/ \E s \in BuildSites : Build(s)
    \/ Message
    \/ Context
    \/ Location
    \/ Backtrace
    \/ Source
    \/ StatusCode
    \/ Status
    \/ Display
    \/ RootCause
    \/ Drop

Spec == Init /\ [][Next]_vars

\* the value with the optional classification fields reason, debug,
\* request_id and id next to status
NextOpt ==
    \/ \E m \in Messages, s \in Sites : Builder(m, s)
    \/ \E m \in Messages, s \in Sites : New(m, s)
    \/ \E t \in Statuses : WithStatus(t)
    \/ \E t \in Texts : WithReason(t)
    \/ \E t \in Texts : WithDebug(t)
    \/ \E t \in Texts : WithId(t)
    \/ \E s \in BuildSites : Build(s)
    \/ Status
    \/ Reason
    \/ Debug
    \/ RequestId
    \/ Id
    \/ Drop

SpecOpt == Init /\ [][NextOpt]_vars

----------------------------------------------------------------------------
(* Properties *)

\* the finished value, the caller's arguments, the builder
E == Unwrap(err)

H == Unwrap(hist)

BuilderStep == \E m \in Messages, s \in Sites : Builder(m, s)

NewStep == \E m \in Messages, s \in Sites : New(m, s)

WithContextStep == \E c \in Contexts : WithContext(c)

WithSourceStep == \E e \in Causes : WithSource(e)

WithStatusCodeStep == \E n \in StatusCodes : WithStatusCode(n)

WithStatusStep == \E t \in Statuses : WithStatus(t)

BuildStep == \E s \in BuildSites : Build(s)

ReadStep ==
    \/ Message \/ Context \/ Location \/ Backtrace
    \/ Source \/ StatusCode \/ Status \/ Display

\* C1: context() of the built value is the sequence of the with_context
\* arguments in call order, whatever other with_* calls were made in between,
\* and the empty sequence when with_context was never called.
ContextInCallOrder ==
    IsSome(err) => Errorsx_context(E) = H.context

ContextInCallOrderWitness ==
    /\ IsSome(err)
    /\ Errorsx_context(E) = <<"b", "a">>
    /\ IsSome(H.source)
    /\ IsSome(H.status_code)

\* C2: a value built without any call to with_status_code reports
\* status_code() == 500, a present value and not an absent one.
DefaultStatusCodeIs500 ==
    (IsSome(err) /\ H.status_code = None)
        => Errorsx_status_code(E) = Some(500)

\* C3: the last with_status_code (with_status) call before build() decides the
\* status code (status) of the built value, whatever was set before it.
LastSetterWins ==
    IsSome(err) =>
        /\ IsSome(H.status_code) => Errorsx_status_code(E) = H.status_code
        /\ IsSome(H.status) => Errorsx_status(E) = H.status

LastSetterWinsWitness ==
    /\ IsSome(err)
    /\ {"status_code", "status"} \subseteq H.replaced
    /\ Errorsx_status_code(E) = Some(404)
    /\ Errorsx_status(E) = Some("ok")

\* C4: source() is absent when with_source was never called and otherwise is
\* exactly the error passed to the last with_source call; the earlier causes
\* are gone and are not chained under the new one.
AtMostOneCause ==
    IsSome(err) =>
        /\ Errorsx_source(E) = H.source
        /\ IsSome(H.source) => Unwrap(Errorsx_source(E)) \in Causes

AtMostOneCauseWitness ==
    /\ IsSome(err)
    /\ "source" \in H.replaced
    /\ Errorsx_source(E) = Some(IoError)

\* the values reached from e by following source() at most three times
Follow(S) ==
    S \cup { Unwrap(Error_source(x)) : x \in { y \in S : IsSome(Error_source(y)) } }

Chain(e) == Follow(Follow(Follow({e})))

\* C5: root_cause returns the one value of the chain that has no source: the
\* input itself when it has none, the cause when the cause is a leaf, and C for
\* the chain A -> B -> C; the walk changes no value.
RootCauseIsTerminal ==
    [][RootCause =>
         /\ err' = err
         /\ LET r == obs'.val
            IN  /\ Error_source(r) = None
                /\ r \in Chain(E)
                /\ { x \in Chain(E) : Error_source(x) = None } = {r}
                /\ H.source = None => r = E
                /\ H.source = Some(IoError) => r = IoError
                /\ H.source = Some(InnerB) => r = InnerC
      ]_vars

RootCauseIsTerminalWitness ==
    /\ IsSome(err)
    /\ Errorsx_source(E) = Some(InnerB)
    /\ obs.op = "root_cause"
    /\ obs.val = InnerC

\* what the value reports for each optional field, and what the caller set
Reported ==
    [ status     |-> Errorsx_status(E),
      reason     |-> Errorsx_reason(opt),
      debug      |-> Errorsx_debug(opt),
      request_id |-> Errorsx_request_id(opt),
      id         |-> Errorsx_id(opt) ]

Passed ==
    [ status     |-> H.status,
      reason     |-> H.reason,
      debug      |-> H.debug,
      request_id |-> None,
      id         |-> H.id ]

\* C6: an optional field that was never set reports absent, not an empty
\* string; a field set to the empty string reports present and empty.
UnsetIsAbsent ==
    IsSome(err) =>
        \A f \in DOMAIN Passed :
            /\ Passed[f] = None => Reported[f] = None
            /\ Passed[f] = Some("") =>
                   (IsSome(Reported[f]) /\ Unwrap(Reported[f]) = "")

UnsetIsAbsentWitness ==
    /\ IsSome(err)
    /\ Reported.status = Some("")
    /\ Reported.reason = None
    /\ Reported.debug = Some("")
    /\ Reported.id = None
    /\ obs.op = "status"

\* C7: no accessor and no Display rendering changes the built value, and an
\* accessor read twice in a row returns the same result.
ReadsLeaveValueUnchanged ==
    [][ReadStep =>
         /\ err' = err
         /\ obs'.again => obs'.val = obs.val
      ]_vars

ReadsLeaveValueUnchangedWitness ==
    /\ IsSome(err)
    /\ obs.op = "source"
    /\ obs.again
    /\ obs.val = Some(InnerB)

\* C8: the backtrace is captured once, in build(): new/builder and the with_*
\* calls capture nothing, build() captures one snapshot and uses up the
\* builder, and backtrace() and Display return that snapshot without
\* capturing again.
BacktraceCapturedOnce ==
    [][ /\ (BuilderStep \/ WithContextStep \/ WithSourceStep
              \/ WithStatusCodeStep \/ WithStatusStep) =>
                 captures' = captures
        /\ (BuildStep \/ NewStep) =>
               /\ captures' = captures + 1
               /\ builder' = None
               /\ Errorsx_backtrace(Unwrap(err')) = Backtrace_force_capture(captures)
        /\ ReadStep =>
               /\ captures' = captures
               /\ Errorsx_backtrace(Unwrap(err')) = Errorsx_backtrace(E)
        /\ Backtrace => obs'.val = Errorsx_backtrace(E)
        /\ Display => obs'.val = Errorsx_fmt(E)
      ]_vars

BacktraceCapturedOnceWitness ==
    /\ IsSome(err)
    /\ builder = None
    /\ IsSome(H.status)
    /\ obs.op = "display"
    /\ obs.again
    /\ Errorsx_backtrace(E) = captures

\* the context trail as text, built from the left
Trail(context) ==
    LET text[i \in 0..Len(context)] ==
            IF i = 0 THEN ""
            ELSE IF i = 1 THEN context[1]
            ELSE text[i - 1] \o "," \o context[i]
    IN  text[Len(context)]

\* C9: the rendering is "Location: (at: <file>, line_no: <line>)," then
\* "Context: " and the entries joined by ",", then "Source:" and the
\* backtrace; message, cause, status code and status do not show in it.
DisplayLayout ==
    (IsSome(err) /\ obs.op = "display") =>
        /\ obs.val = "Location: (at: " \o E.location.file \o ", line_no: "
                        \o ToString(E.location.line) \o "),\nContext: "
                        \o Trail(E.context) \o "\nSource:\n "
                        \o Backtrace_fmt(E.backtrace)
        /\ \A m \in Messages, n \in StatusCodes, t \in Statuses, c \in Causes :
              /\ Errorsx_fmt([E EXCEPT !.message = m, !.source = Some(c),
                                !.status_code = Some(n), !.status = Some(t)])
                    = obs.val
              /\ Errorsx_fmt([E EXCEPT !.message = m, !.source = None,
                                !.status_code = None, !.status = None])
                    = obs.val

DisplayLayoutWitness ==
    /\ IsSome(err)
    /\ E.context = <<"a", "b">>
    /\ obs.op = "display"
    /\ obs.val = "Location: (at: src/main.rs, line_no: 10),\nContext: a,b\nSource:\n Backtrace#3"

Fields == {"message", "context", "location", "source", "status_code", "status"}

OnlyChanges(F) ==
    \A f \in Fields \ F : Unwrap(builder')[f] = Unwrap(builder)[f]

\* C10: each with_* call changes its own field only, build() carries every
\* field over unchanged, message() is the argument of new/builder and
\* location() is the site of new/builder, not of a later call.
FrameKept ==
    [][ /\ WithContextStep => OnlyChanges({"context"})
        /\ WithSourceStep => OnlyChanges({"source"})
        /\ WithStatusCodeStep => OnlyChanges({"status_code"})
        /\ WithStatusStep => OnlyChanges({"status"})
        /\ BuildStep => \A f \in Fields : Unwrap(err')[f] = Unwrap(builder)[f]
        /\ IsSome(err') =>
               /\ Errorsx_message(Unwrap(err')) = Unwrap(hist').message
               /\ Errorsx_location(Unwrap(err')) = Unwrap(hist').site
               /\ Errorsx_location(Unwrap(err')) \notin BuildSites
      ]_vars

FrameKeptWitness ==
    /\ IsSome(err)
    /\ builder = None
    /\ Errorsx_message(E) = ""
    /\ Errorsx_location(E) = [file |-> "src/lib.rs", line |-> 20]
    /\ Errorsx_context(E) # <<>>
    /\ IsSome(Errorsx_source(E))
    /\ IsSome(Errorsx_status_code(E))
    /\ IsSome(Errorsx_status(E))

====
